---- MODULE Spec2Model ----
(***************************************************************************)
(* desoto: service discovery agent publishing docker containers to the     *)
(* vulcand registry kept in etcd.  The model follows src/main.go: the      *)
(* foreground reconciliation loop of main, the relay and retry goroutines  *)
(* of mustWatchServiceDefs, the ticker, and the data path                  *)
(* mustGetServices -> initializeVulcandBackends -> updateVulcanDFromDocker *)
(* -> registerContainerWithVulcan -> findExternalPort.                     *)
(*                                                                         *)
(* The etcd, docker and backoff clients are external.  They are modelled   *)
(* by the interface main.go consumes: Get and ListContainers either fail   *)
(* or return a value, a put either fails or stores its value, Watch hands  *)
(* events to the receiver channel until it returns an error, and the       *)
(* backoff policy answers each error with a delay or with Stop.            *)
(***************************************************************************)
EXTENDS Integers, Sequences, FiniteSets, TLC

\* ------------------------------------------------------------------ bounds

\* Number of changes the environment makes to the definitions in the store
\* where the watch goroutines are studied.
MaxChanges == 2

\* Number of changes it makes where the passes of the loop are studied.
MaxReloads == 1

\* Number of errors the watch operation returns.
MaxWatchErrs == 3

\* Number of errors it returns where the scheduling is fair.
MaxFairErrs == 1

\* Number of puts that fail within one call of initializeVulcandBackends or
\* of updateVulcanDFromDocker.
MaxPutFails == 1

\* Length of the container names where the stripping of names is studied.
MaxNameLen == 3

\* Number of port mappings of a container where the port lookup is studied.
MaxPorts == 2

\* Number of nodes of the definitions directory where the loading is studied.
MaxNodes == 3

\* ------------------------------------------------------------- data values

\* opts.Host (default "localhost")
Host == "localhost"

\* Container names and pattern literals are sequences of characters.
App1 == <<"/", "a", "1">>
App2 == <<"/", "a", "2">>
Bee1 == <<"/", "b", "1">>
Link == <<"/", "b", "/", "a">>

\* Raw definition nodes below opts.ServiceDefinitionBase: key and value
\* (name pattern, container port).  A pattern either compiles to a matcher
\* that is anchored at the start ("^a") or matches anywhere ("1"), or it
\* does not compile.
D1 == [key |-> "svc1", compiles |-> TRUE, anchored |-> TRUE, lit |-> <<"a">>, port |-> 8080]
D2 == [key |-> "svc2", compiles |-> TRUE, anchored |-> FALSE, lit |-> <<"1">>, port |-> 9090]
DBadRe == [key |-> "badre", compiles |-> FALSE, anchored |-> FALSE, lit |-> <<>>, port |-> 8080]
DNoPort == [key |-> "noport", compiles |-> TRUE, anchored |-> TRUE, lit |-> <<"b">>, port |-> 0]

DBigPort == [key |-> "bigport", compiles |-> TRUE, anchored |-> FALSE, lit |-> <<"a">>, port |-> 65536]

\* The contents the definitions directory takes (node order as etcd lists it).
StoreStates == { <<D1>>, <<D1, D2>>, <<DBadRe, D2, DNoPort>> }

\* The contents it takes where the watch goroutines are studied.
FewStoreStates == { <<D1>>, <<DBadRe, D2, DNoPort>> }

\* The content it has in scenario C.
ScenarioStore == { <<D1, D2>> }

\* docker.APIContainers values: ID, Names, Ports (PrivatePort, PublicPort).
Port(priv, pub) == [PrivatePort |-> priv, PublicPort |-> pub]

CA == [ID |-> "cA", Names |-> <<App1>>,
       Ports |-> <<Port(8080, 33000), Port(9090, 33002)>>]
CB == [ID |-> "cB", Names |-> <<Bee1, Link>>,
       Ports |-> <<Port(9090, 0), Port(9090, 33001)>>]
CC == [ID |-> "cC", Names |-> <<App1, App2>>,
       Ports |-> <<Port(8080, 33003), Port(9090, 70000)>>]

\* The answers ListContainers gives (names are unique within one listing).
Inventories == { <<CA, CB>>, <<CB, CC>> }

\* The answer it gives where the watch goroutines are studied.
OneInventory == { <<CA, CB>> }

\* The sequences over S of length lo..hi.
SeqsOf(S, lo, hi) == UNION { [1..k -> S] : k \in lo..hi }

\* Every directory of up to MaxNodes nodes, in every order (the keys of a
\* directory are distinct).
RawNodes == {D1, D2, DBadRe, DNoPort, DBigPort}

LoadStores ==
    { s \in SeqsOf(RawNodes, 0, MaxNodes) :
        \A i, j \in 1..Len(s) : i # j => s[i] # s[j] }

\* Container names as the runtime may report them: with no, one or several
\* leading separators, and separators inside.
NameChars == {"/", "a", "1"}

ContainerNames == SeqsOf(NameChars, 1, MaxNameLen)

\* Port mappings of a container: the container ports of the two services of
\* the model, published at a port inside or outside [1, 65535].
PortMappings ==
    { Port(priv, pub) : priv \in {8080, 9090}, pub \in {-1, 0, 1, 65535, 65536} }

\* Listings of one container: every name with the mappings of CA, and the
\* name of CA with every list of mappings.
NameListings ==
    { <<[ID |-> "cN", Names |-> <<n>>, Ports |-> CA.Ports]>> : n \in ContainerNames }

PortListings ==
    { <<[ID |-> "cP", Names |-> <<App1>>, Ports |-> ps]>> :
        ps \in SeqsOf(PortMappings, 0, MaxPorts) }

Listings == NameListings \cup PortListings

\* The sets of failing puts among n puts, at most k of them.
FailSets(n, k) == { f \in SUBSET (1..n) : Cardinality(f) <= k }

\* ------------------------------------------------------------------- state

VARIABLES
    store,        \* definitions directory in etcd: sequence of raw nodes
    storeIndex,   \* etcd modification index of the definitions directory
    svcs,         \* main's svcs: the in-memory services
    backends,     \* registry: service keys that have a Backend record
    servers,      \* registry: Server records [key, name, host, port]
    pc,           \* position of main
    trigger,      \* what started the current pass: startup, defchange, tick
    passOps,      \* calls made by the current pass, in order
    active,       \* passes started by the loop and not yet completed
    beTried,      \* service keys initializeVulcandBackends attempted in this pass
    poll,         \* what updateVulcanDFromDocker did in this pass
    tickPending,  \* ticker.C (buffer of one) holds a tick
    tickerOn,     \* time.NewTicker has been called
    wpc,          \* position of the retry goroutine
    waitIndex,    \* index the running Watch call waits for
    rpc,          \* position of the relay goroutine
    produced,     \* events the Watch calls have obtained from etcd
    defPasses,    \* values read from defChange by the loop
    watchErrs,    \* errors returned by watchOperation
    streak,       \* errors returned since the last handed-over event
    notified,     \* calls of errNotify
    lastBackoff,  \* last answer of the backoff policy: none, delay, Stop
    fatalCause    \* none, or the log.Fatal call that ended the process

vars == <<store, storeIndex, svcs, backends, servers, pc, trigger, passOps,
          active, beTried, poll, tickPending, tickerOn, wpc, waitIndex, rpc,
          produced, defPasses, watchErrs, streak, notified, lastBackoff,
          fatalCause>>

dataVars == <<svcs, backends, servers, beTried, poll>>
loopVars == <<pc, trigger, passOps, active>>
tickVars == <<tickPending, tickerOn>>
watchVars == <<wpc, waitIndex, produced, watchErrs, streak, notified, lastBackoff>>
storeVars == <<store, storeIndex>>

Running == fatalCause = "none"

\* ---------------------------------------------------------- pure functions

\* Mutant: strings.TrimPrefix(name, "/"), which drops one leading separator.
TrimPrefix(name) ==
    IF name # <<>> /\ Head(name) = "/" THEN Tail(name) ELSE name

\* Mutant: name[1:], which drops the first character whatever it is.
TrimLeftSlice(name) ==
    IF name # <<>> THEN Tail(name) ELSE name

\* strings.TrimLeft(name, "/"): drops every leading character of the cutset.
RECURSIVE TrimLeft(_)
TrimLeft(name) ==
    IF name # <<>> /\ Head(name) = "/" THEN TrimLeft(Tail(name)) ELSE name

\* s.re.MatchString(cleanName) for the two pattern shapes of the model.
HasPrefix(s, lit) == Len(lit) <= Len(s) /\ SubSeq(s, 1, Len(lit)) = lit

MatchString(re, s) ==
    IF re.anchored
    THEN HasPrefix(s, re.lit)
    ELSE \E i \in 0..(Len(s) - Len(re.lit)) : SubSeq(s, i + 1, i + Len(re.lit)) = re.lit

\* newService(node.Key, node.Value): the Service (key, compiled pattern,
\* serviceDef.ContainerPort), or an error when the pattern does not compile
\* or the port is missing or invalid.
newService(node) ==
    IF node.compiles /\ node.port \in 1..65535
    THEN [err |-> FALSE,
          svc |-> [key |-> node.key,
                   re |-> [anchored |-> node.anchored, lit |-> node.lit],
                   ContainerPort |-> node.port]]
    ELSE [err |-> TRUE, svc |-> [key |-> node.key]]

\* Mutant: the first invalid node ends the loop over the nodes.
RECURSIVE ParseNodesAbort(_)
ParseNodesAbort(nodes) ==
    IF nodes = <<>> THEN <<>>
    ELSE LET s == newService(Head(nodes))
         IN  IF s.err THEN <<>> ELSE <<s.svc>> \o ParseNodesAbort(Tail(nodes))

\* The loop of mustGetServices over resp.Node.Nodes: invalid nodes are
\* skipped with a warning, the others appended in order.
RECURSIVE ParseNodes(_)
ParseNodes(nodes) ==
    IF nodes = <<>> THEN <<>>
    ELSE LET s == newService(Head(nodes))
         IN  (IF s.err THEN <<>> ELSE <<s.svc>>) \o ParseNodes(Tail(nodes))

\* findExternalPort: the first mapping of containerPort decides.
NotExposed == [port |-> -1, err |-> TRUE]

\* Mutant: a mapping with a public port outside the range is passed over and
\* the next mapping of the port decides.
RECURSIVE findExternalPortSkip(_, _)
findExternalPortSkip(ports, containerPort) ==
    IF ports = <<>> THEN NotExposed
    ELSE LET aPort == Head(ports)
         IN  IF /\ containerPort = aPort.PrivatePort
                /\ ~(aPort.PublicPort < 1 \/ aPort.PublicPort > 65535)
             THEN [port |-> aPort.PublicPort, err |-> FALSE]
             ELSE findExternalPortSkip(Tail(ports), containerPort)

\* Mutant: the lower limit of the range is off by one, public port 0 passes.
RECURSIVE findExternalPortZero(_, _)
findExternalPortZero(ports, containerPort) ==
    IF ports = <<>> THEN NotExposed
    ELSE LET aPort == Head(ports)
         IN  IF containerPort = aPort.PrivatePort
             THEN IF aPort.PublicPort < 0 \/ aPort.PublicPort > 65535
                  THEN NotExposed
                  ELSE [port |-> aPort.PublicPort, err |-> FALSE]
             ELSE findExternalPortZero(Tail(ports), containerPort)

RECURSIVE findExternalPort(_, _)
findExternalPort(ports, containerPort) ==
    IF ports = <<>> THEN NotExposed
    ELSE LET aPort == Head(ports)
         IN  IF containerPort = aPort.PrivatePort
             THEN IF aPort.PublicPort < 1 \/ aPort.PublicPort > 65535
                  THEN NotExposed
                  ELSE [port |-> aPort.PublicPort, err |-> FALSE]
             ELSE findExternalPort(Tail(ports), containerPort)

\* newServer(opts.Host, port) and server.put: upsert of the record stored at
\* <vulcanPath>/backends/<key>/servers/<instanceName>.
PutServer(reg, key, instanceName, port) ==
    { s \in reg : ~(s.key = key /\ s.name = instanceName) }
        \cup { [key |-> key, name |-> instanceName, host |-> Host, port |-> port] }

\* backend.put: upsert of <basepath>/backends/<key>/backend.
PutBackend(reg, key) == reg \cup {key}

\* State threaded through one updateVulcanDFromDocker: the registry's
\* servers, the number of registerContainerWithVulcan calls so far, and what
\* these calls did (port lookups, put attempts, failed puts, warnings).
PassStart(reg) ==
    [servers |-> reg, calls |-> 0, resolved |-> {}, puts |-> {}, failed |-> {},
     warned |-> {}]

Target(svc, instanceName) == [key |-> svc.key, name |-> instanceName]

\* Mutant: a failed lookup or put ends the pass, the remaining matches are
\* not looked at.
registerContainerAbort(st, svc, container, instanceName, putFails) ==
    LET n == st.calls + 1
        r == findExternalPort(container.Ports, svc.ContainerPort)
        t == Target(svc, instanceName)
        seen == [st EXCEPT !.calls = n, !.resolved = @ \cup {t}]
    IN  IF st.warned # {}
        THEN [st EXCEPT !.calls = n]
        ELSE IF r.err
        THEN [seen EXCEPT !.warned = @ \cup {t}]
        ELSE IF n \in putFails
             THEN [seen EXCEPT !.puts = @ \cup {[t |-> t, port |-> r.port]},
                               !.failed = @ \cup {t},
                               !.warned = @ \cup {t}]
             ELSE [seen EXCEPT !.puts = @ \cup {[t |-> t, port |-> r.port]},
                               !.servers = PutServer(@, svc.key, instanceName, r.port)]

\* registerContainerWithVulcan; the put of call number n fails iff n is in
\* putFails.
registerContainerWithVulcan(st, svc, container, instanceName, putFails) ==
    LET n == st.calls + 1
        r == findExternalPort(container.Ports, svc.ContainerPort)
        t == Target(svc, instanceName)
        seen == [st EXCEPT !.calls = n, !.resolved = @ \cup {t}]
    IN  IF r.err
        THEN [seen EXCEPT !.warned = @ \cup {t}]
        ELSE IF n \in putFails
             THEN [seen EXCEPT !.puts = @ \cup {[t |-> t, port |-> r.port]},
                               !.failed = @ \cup {t},
                               !.warned = @ \cup {t}]
             ELSE [seen EXCEPT !.puts = @ \cup {[t |-> t, port |-> r.port]},
                               !.servers = PutServer(@, svc.key, instanceName, r.port)]

\* The value a loop body leaves behind, computed once and then handed to the
\* next iteration.
Once(S) == CHOOSE x \in S : TRUE

\* Mutant: the loop over the services stops at the first service that
\* matches the name.
RECURSIVE ForServicesFirstMatch(_, _, _, _, _)
ForServicesFirstMatch(st, ss, container, cleanName, putFails) ==
    IF ss = <<>> THEN st
    ELSE IF MatchString(Head(ss).re, cleanName)
         THEN registerContainerWithVulcan(st, Head(ss), container, cleanName, putFails)
         ELSE ForServicesFirstMatch(st, Tail(ss), container, cleanName, putFails)

\* The three nested loops of updateVulcanDFromDocker.
RECURSIVE ForServices(_, _, _, _, _)
ForServices(st, ss, container, cleanName, putFails) ==
    IF ss = <<>> THEN st
    ELSE Once({ ForServices(st1, Tail(ss), container, cleanName, putFails) :
                  st1 \in { IF MatchString(Head(ss).re, cleanName)
                            THEN registerContainerWithVulcan(st, Head(ss), container,
                                                             cleanName, putFails)
                            ELSE st } })

\* Mutant: only the first name of a container is looked at.
ForNamesFirst(st, names, container, ss, putFails) ==
    IF names = <<>> THEN st
    ELSE ForServices(st, ss, container, TrimLeft(Head(names)), putFails)

RECURSIVE ForNames(_, _, _, _, _)
ForNames(st, names, container, ss, putFails) ==
    IF names = <<>> THEN st
    ELSE Once({ ForNames(st1, Tail(names), container, ss, putFails) :
                  st1 \in { ForServices(st, ss, container, TrimLeft(Head(names)),
                                        putFails) } })

RECURSIVE ForContainers(_, _, _, _)
ForContainers(st, containers, ss, putFails) ==
    IF containers = <<>> THEN st
    ELSE Once({ ForContainers(st1, Tail(containers), ss, putFails) :
                  st1 \in { ForNames(st, Head(containers).Names, Head(containers), ss,
                                     putFails) } })

\* Number of (container, name, service) matches of a listing: the number of
\* registerContainerWithVulcan calls a pass makes.
NumCalls(containers, ss) == ForContainers(PassStart({}), containers, ss, {}).calls

\* The loop of initializeVulcandBackends, threading the registry's backends
\* and the keys attempted; the put for the i-th service fails iff i is in
\* putFails.
RECURSIVE initializeVulcandBackends(_, _, _, _)
initializeVulcandBackends(st, ss, i, putFails) ==
    IF i > Len(ss) THEN st
    ELSE Once({ initializeVulcandBackends(st1, ss, i + 1, putFails) :
                  st1 \in { IF i \in putFails
                            THEN [st EXCEPT !.tried = @ \cup {ss[i].key},
                                            !.failed = @ \cup {ss[i].key}]
                            ELSE [st EXCEPT !.tried = @ \cup {ss[i].key},
                                            !.backends = PutBackend(@, ss[i].key)] } })

Keys(ss) == { ss[i].key : i \in 1..Len(ss) }

\* -------------------------------------------------------------------- Init

NoPoll ==
    [done |-> FALSE, containers |-> <<>>, svcs |-> <<>>, calls |-> 0,
     resolved |-> {}, puts |-> {}, failed |-> {}, warned |-> {}]

\* main has parsed its flags and connected the clients (lines 35-49); the
\* registry is empty and the initial pass is about to load the definitions.
InitEnv(storeStates) ==
    /\ store \in storeStates
    /\ storeIndex = 0
    /\ svcs = <<>>
    /\ backends = {}
    /\ servers = {}
    /\ pc = "load"
    /\ trigger = "startup"
    /\ passOps = <<>>
    /\ active = 1
    /\ beTried = {}
    /\ poll = NoPoll
    /\ tickPending = FALSE
    /\ tickerOn = FALSE
    /\ wpc = "idle"
    /\ waitIndex = 0
    /\ rpc = "idle"
    /\ produced = 0
    /\ defPasses = 0
    /\ watchErrs = 0
    /\ streak = 0
    /\ notified = 0
    /\ lastBackoff = "none"
    /\ fatalCause = "none"

Init == InitEnv(StoreStates)

\* ------------------------------------------------- the reconciliation loop

\* Mutant: the services loaded are added to the set instead of replacing it.
GetEnvPatch(getMayFail) ==
    /\ Running
    /\ pc = "load"
    /\ \/ /\ getMayFail
          /\ fatalCause' = "get"
          /\ UNCHANGED <<dataVars, loopVars>>
       \/ /\ svcs' = svcs \o ParseNodes(store)
          /\ pc' = "backends"
          /\ passOps' = Append(passOps, "get")
          /\ UNCHANGED <<backends, servers, beTried, poll, trigger, active, fatalCause>>
    /\ UNCHANGED <<storeVars, tickVars, watchVars, rpc, defPasses>>

\* mustGetServices (main lines 52 and 69): a failed Get is fatal, otherwise
\* svcs is replaced by the services parsed from the nodes.
GetEnv(getMayFail) ==
    /\ Running
    /\ pc = "load"
    /\ \/ /\ getMayFail
          /\ fatalCause' = "get"
          /\ UNCHANGED <<dataVars, loopVars>>
       \/ /\ svcs' = ParseNodes(store)
          /\ pc' = "backends"
          /\ passOps' = Append(passOps, "get")
          /\ UNCHANGED <<backends, servers, beTried, poll, trigger, active, fatalCause>>
    /\ UNCHANGED <<storeVars, tickVars, watchVars, rpc, defPasses>>

mustGetServices == GetEnv(TRUE)

\* Mutant: the pass goes from the load to the poll without publishing the
\* Backends.
InitBackendsSkip(maxFails) ==
    /\ Running
    /\ pc = "backends"
    /\ pc' = "poll"
    /\ passOps' = Append(passOps, "backends")
    /\ UNCHANGED <<svcs, backends, servers, beTried, poll, trigger, active, fatalCause>>
    /\ UNCHANGED <<storeVars, tickVars, watchVars, rpc, defPasses>>

\* initializeVulcandBackends(etcdClient, opts.VulcandEtcdBase, svcs)
\* (main lines 54 and 71); any of its puts may fail.
InitBackendsEnv(maxFails) ==
    /\ Running
    /\ pc = "backends"
    /\ \E putFails \in FailSets(Len(svcs), maxFails) :
          \E st \in { initializeVulcandBackends(
                          [backends |-> backends, tried |-> {}, failed |-> {}],
                          svcs, 1, putFails) } :
              /\ backends' = st.backends
              /\ beTried' = st.tried
    /\ pc' = "poll"
    /\ passOps' = Append(passOps, "backends")
    /\ UNCHANGED <<svcs, servers, poll, trigger, active, fatalCause>>
    /\ UNCHANGED <<storeVars, tickVars, watchVars, rpc, defPasses>>

LoopInitBackends == InitBackendsEnv(MaxPutFails)

\* Mutant: a failed put of a Server is fatal.
PollEnvFatalPut(inventories, maxFails, listMayFail) ==
    /\ Running
    /\ pc = "poll"
    /\ \/ /\ listMayFail
          /\ fatalCause' = "list"
          /\ UNCHANGED <<dataVars, loopVars>>
       \/ \E containers \in inventories :
          \E putFails \in FailSets(NumCalls(containers, svcs), maxFails) :
          \E st \in { ForContainers(PassStart(servers), containers, svcs, putFails) } :
                 /\ servers' = st.servers
                 /\ poll' = [done |-> TRUE, containers |-> containers, svcs |-> svcs,
                             calls |-> st.calls, resolved |-> st.resolved,
                             puts |-> st.puts, failed |-> st.failed,
                             warned |-> st.warned]
                 /\ pc' = IF trigger = "startup" THEN "startwatch" ELSE "select"
                 /\ passOps' = Append(passOps, "poll")
                 /\ active' = active - 1
                 /\ fatalCause' = IF st.failed # {} THEN "put" ELSE fatalCause
                 /\ UNCHANGED <<svcs, backends, beTried, trigger>>
    /\ UNCHANGED <<storeVars, tickVars, watchVars, rpc, defPasses>>

\* Mutant: the pass removes the Servers it did not write itself.
PollEnvPrune(inventories, maxFails, listMayFail) ==
    /\ Running
    /\ pc = "poll"
    /\ \/ /\ listMayFail
          /\ fatalCause' = "list"
          /\ UNCHANGED <<dataVars, loopVars>>
       \/ \E containers \in inventories :
          \E putFails \in FailSets(NumCalls(containers, svcs), maxFails) :
          \E st \in { ForContainers(PassStart({}), containers, svcs, putFails) } :
                 /\ servers' = st.servers
                 /\ poll' = [done |-> TRUE, containers |-> containers, svcs |-> svcs,
                             calls |-> st.calls, resolved |-> st.resolved,
                             puts |-> st.puts, failed |-> st.failed,
                             warned |-> st.warned]
                 /\ pc' = IF trigger = "startup" THEN "startwatch" ELSE "select"
                 /\ passOps' = Append(passOps, "poll")
                 /\ active' = active - 1
                 /\ UNCHANGED <<svcs, backends, beTried, trigger, fatalCause>>
    /\ UNCHANGED <<storeVars, tickVars, watchVars, rpc, defPasses>>

\* updateVulcanDFromDocker(dockerClient, etcdClient, ..., svcs) (main lines
\* 56, 72 and 75): a failed ListContainers is fatal; otherwise every match
\* of the listing is registered, and any of the puts may fail.  The initial
\* pass goes on to start the ticker and the watch, the others return to the
\* select.
PollEnv(inventories, maxFails, listMayFail) ==
    /\ Running
    /\ pc = "poll"
    /\ \/ /\ listMayFail
          /\ fatalCause' = "list"
          /\ UNCHANGED <<dataVars, loopVars>>
       \/ \E containers \in inventories :
          \E putFails \in FailSets(NumCalls(containers, svcs), maxFails) :
          \E st \in { ForContainers(PassStart(servers), containers, svcs, putFails) } :
                 /\ servers' = st.servers
                 /\ poll' = [done |-> TRUE, containers |-> containers, svcs |-> svcs,
                             calls |-> st.calls, resolved |-> st.resolved,
                             puts |-> st.puts, failed |-> st.failed,
                             warned |-> st.warned]
                 /\ pc' = IF trigger = "startup" THEN "startwatch" ELSE "select"
                 /\ passOps' = Append(passOps, "poll")
                 /\ active' = active - 1
                 /\ UNCHANGED <<svcs, backends, beTried, trigger, fatalCause>>
    /\ UNCHANGED <<storeVars, tickVars, watchVars, rpc, defPasses>>

updateVulcanDFromDocker == PollEnv(Inventories, MaxPutFails, TRUE)

\* Mutant: mustWatchServiceDefs runs the retry loop itself instead of handing
\* it to a goroutine, so main does not get back from the call.
StartWatchForeground ==
    /\ Running
    /\ pc = "startwatch"
    /\ wpc = "idle"
    /\ pc' = "startwatch"
    /\ tickerOn' = TRUE
    /\ rpc' = "recv"
    /\ wpc' = "retry"
    /\ UNCHANGED <<dataVars, trigger, passOps, active, tickPending, storeVars,
                   waitIndex, produced, watchErrs, streak, notified, lastBackoff,
                   defPasses, fatalCause>>

\* main lines 58-61: time.NewTicker, make(chan bool), mustWatchServiceDefs,
\* which starts the relay goroutine and the retry goroutine and returns.
StartWatch ==
    /\ Running
    /\ pc = "startwatch"
    /\ pc' = "select"
    /\ tickerOn' = TRUE
    /\ rpc' = "recv"
    /\ wpc' = "retry"
    /\ UNCHANGED <<dataVars, trigger, passOps, active, tickPending, storeVars,
                   waitIndex, produced, watchErrs, streak, notified, lastBackoff,
                   defPasses, fatalCause>>

\* case <-defChange (main lines 67-72), the rendezvous with the relay's
\* "changed <- true" (line 170) on the unbuffered channel.
LoopRecvDefChange ==
    /\ Running
    /\ pc = "select"
    /\ rpc = "send"
    /\ rpc' = "recv"
    /\ pc' = "load"
    /\ trigger' = "defchange"
    /\ passOps' = <<>>
    /\ active' = active + 1
    /\ defPasses' = defPasses + 1
    /\ beTried' = {}
    /\ poll' = NoPoll
    /\ UNCHANGED <<svcs, backends, servers, tickVars, watchVars, storeVars,
                   fatalCause>>

\* Mutant: the tick starts its poll pass in a goroutine of its own and the
\* loop goes back to its select.
LoopRecvTickAsync ==
    /\ Running
    /\ pc = "select"
    /\ tickPending
    /\ tickPending' = FALSE
    /\ pc' = "select"
    /\ trigger' = "tick"
    /\ passOps' = <<>>
    /\ active' = active + 1
    /\ beTried' = {}
    /\ poll' = NoPoll
    /\ UNCHANGED <<svcs, backends, servers, tickerOn, watchVars, rpc,
                   storeVars, defPasses, fatalCause>>

\* Mutant: the tick case falls into the handling of a definition change.
LoopRecvTickReload ==
    /\ Running
    /\ pc = "select"
    /\ tickPending
    /\ tickPending' = FALSE
    /\ pc' = "load"
    /\ trigger' = "tick"
    /\ passOps' = <<>>
    /\ active' = active + 1
    /\ beTried' = {}
    /\ poll' = NoPoll
    /\ UNCHANGED <<svcs, backends, servers, tickerOn, watchVars, rpc,
                   storeVars, defPasses, fatalCause>>

\* case <-ticker.C (main lines 73-75).
LoopRecvTick ==
    /\ Running
    /\ pc = "select"
    /\ tickPending
    /\ tickPending' = FALSE
    /\ pc' = "poll"
    /\ trigger' = "tick"
    /\ passOps' = <<>>
    /\ active' = active + 1
    /\ beTried' = {}
    /\ poll' = NoPoll
    /\ UNCHANGED <<svcs, backends, servers, tickerOn, watchVars, rpc,
                   storeVars, defPasses, fatalCause>>

\* The ticker fires (main line 58); ticker.C holds one tick, a tick that
\* finds it full is dropped.
Tick ==
    /\ Running
    /\ tickerOn
    /\ ~tickPending
    /\ tickPending' = TRUE
    /\ UNCHANGED <<dataVars, loopVars, tickerOn, watchVars, rpc,
                   storeVars, defPasses, fatalCause>>

\* ---------------------------------------------------- the watch goroutines

\* watchOperation calls client.Watch(*basepath, 0, true, receiver, nil)
\* (line 175), after the backoff delay when it is a retry: waitIndex 0
\* watches for the changes made after the call.
WatchCall ==
    /\ Running
    /\ wpc = "retry"
    /\ wpc' = "watching"
    /\ waitIndex' = storeIndex + 1
    /\ UNCHANGED <<dataVars, loopVars, tickVars, rpc, storeVars, defPasses,
                   produced, watchErrs, streak, notified, lastBackoff, fatalCause>>

\* The running Watch obtains the next change of the directory and goes on to
\* hand it to receiver.
WatchEvent ==
    /\ Running
    /\ wpc = "watching"
    /\ waitIndex <= storeIndex
    /\ wpc' = "holding"
    /\ waitIndex' = waitIndex + 1
    /\ produced' = produced + 1
    /\ UNCHANGED <<dataVars, loopVars, tickVars, rpc, storeVars, defPasses,
                   watchErrs, streak, notified, lastBackoff, fatalCause>>

\* Mutant: the relay does not block on defChange; an event that arrives while
\* a notification is pending is merged into it.
WatchDeliverCoalescing ==
    /\ Running
    /\ wpc = "holding"
    /\ rpc \in {"recv", "send"}
    /\ wpc' = "watching"
    /\ rpc' = "send"
    /\ streak' = 0
    /\ UNCHANGED <<dataVars, loopVars, tickVars, storeVars, defPasses, waitIndex,
                   produced, watchErrs, notified, lastBackoff, fatalCause>>

\* Mutant: the relay reads receiver and sends nothing on defChange.
WatchDeliverDrop ==
    /\ Running
    /\ wpc = "holding"
    /\ rpc = "recv"
    /\ wpc' = "watching"
    /\ rpc' = "recv"
    /\ streak' = 0
    /\ UNCHANGED <<dataVars, loopVars, tickVars, storeVars, defPasses, waitIndex,
                   produced, watchErrs, notified, lastBackoff, fatalCause>>

\* The rendezvous on the unbuffered receiver: Watch's send and the relay's
\* "<-receiver" (line 169); the relay goes on to "changed <- true".
WatchDeliver ==
    /\ Running
    /\ wpc = "holding"
    /\ rpc = "recv"
    /\ wpc' = "watching"
    /\ rpc' = "send"
    /\ streak' = 0
    /\ UNCHANGED <<dataVars, loopVars, tickVars, storeVars, defPasses, waitIndex,
                   produced, watchErrs, notified, lastBackoff, fatalCause>>

\* client.Watch returns an error (lines 175-176).
WatchFailEnv(maxErrs) ==
    /\ Running
    /\ wpc = "watching"
    /\ watchErrs < maxErrs
    /\ wpc' = "failed"
    /\ watchErrs' = watchErrs + 1
    /\ streak' = streak + 1
    /\ UNCHANGED <<dataVars, loopVars, tickVars, rpc, storeVars, defPasses,
                   waitIndex, produced, notified, lastBackoff, fatalCause>>

WatchFail == WatchFailEnv(MaxWatchErrs)

\* Mutant: the retry goes without a call of errNotify.
BackoffNextSilent ==
    /\ Running
    /\ wpc = "failed"
    /\ lastBackoff' = "delay"
    /\ wpc' = "retry"
    /\ UNCHANGED <<dataVars, loopVars, tickVars, rpc, storeVars, defPasses,
                   waitIndex, produced, watchErrs, streak, notified, fatalCause>>

\* Mutant: the third consecutive error is not retried, it ends the process.
BackoffNextLimited ==
    /\ Running
    /\ wpc = "failed"
    /\ IF streak < 3
       THEN /\ lastBackoff' = "delay"
            /\ notified' = notified + 1
            /\ wpc' = "retry"
            /\ UNCHANGED fatalCause
       ELSE /\ fatalCause' = "watch"
            /\ UNCHANGED <<lastBackoff, notified, wpc>>
    /\ UNCHANGED <<dataVars, loopVars, tickVars, rpc, storeVars, defPasses,
                   waitIndex, produced, watchErrs, streak>>

\* backoff.RetryNotify (line 188): the policy answers the error with a
\* delay; errNotify is called (lines 179-185) and the operation retried.
BackoffNext ==
    /\ Running
    /\ wpc = "failed"
    /\ lastBackoff' = "delay"
    /\ notified' = notified + 1
    /\ wpc' = "retry"
    /\ UNCHANGED <<dataVars, loopVars, tickVars, rpc, storeVars, defPasses,
                   waitIndex, produced, watchErrs, streak, fatalCause>>

\* backoff.RetryNotify returns the error because the policy answered Stop:
\* log.Fatal (lines 189-194).
BackoffStop ==
    /\ Running
    /\ wpc = "failed"
    /\ lastBackoff' = "Stop"
    /\ fatalCause' = "watch"
    /\ UNCHANGED <<dataVars, loopVars, tickVars, rpc, storeVars, defPasses,
                   wpc, waitIndex, produced, watchErrs, streak, notified>>

\* ---------------------------------------------------------- the environment

\* Somebody writes below opts.ServiceDefinitionBase (a write of the value a
\* node has is a change for the watch, too).
StoreChangeEnv(storeStates, maxChanges) ==
    /\ storeIndex < maxChanges
    /\ \E s \in storeStates : store' = s
    /\ storeIndex' = storeIndex + 1
    /\ UNCHANGED <<dataVars, loopVars, tickVars, watchVars, rpc, defPasses,
                   fatalCause>>

StoreChange == StoreChangeEnv(StoreStates, MaxReloads)

\* ------------------------------------------------------------ specification

\* The loop with the full range of definitions, listings and failing puts,
\* fed by a watch that returns no error.
Next ==
    \/ mustGetServices
    \/ LoopInitBackends
    \/ updateVulcanDFromDocker
    \/ StartWatch
    \/ LoopRecvDefChange
    \/ LoopRecvTick
    \/ Tick
    \/ WatchCall
    \/ WatchEvent
    \/ WatchDeliver
    \/ StoreChange

Spec == Init /\ [][Next]_vars

\* The loop and the watch goroutines with every error of the watch and of the
\* backoff policy, over one listing, two contents of the store and at most
\* one failing put per call.
WatchInit == InitEnv(FewStoreStates)

WatchInitBackends == InitBackendsEnv(1)

WatchPoll == PollEnv(OneInventory, 1, TRUE)

WatchStoreChange == StoreChangeEnv(FewStoreStates, MaxChanges)

WatchNext ==
    \/ mustGetServices
    \/ WatchInitBackends
    \/ WatchPoll
    \/ StartWatch
    \/ LoopRecvDefChange
    \/ LoopRecvTick
    \/ Tick
    \/ WatchCall
    \/ WatchEvent
    \/ WatchDeliver
    \/ WatchFail
    \/ BackoffNext
    \/ BackoffStop
    \/ WatchStoreChange

WatchSpec == WatchInit /\ [][WatchNext]_vars

\* The same with every put succeeding.
QuietInitBackends == InitBackendsEnv(0)

QuietPoll == PollEnv(OneInventory, 0, TRUE)

QuietNext ==
    \/ mustGetServices
    \/ QuietInitBackends
    \/ QuietPoll
    \/ StartWatch
    \/ LoopRecvDefChange
    \/ LoopRecvTick
    \/ Tick
    \/ WatchCall
    \/ WatchEvent
    \/ WatchDeliver
    \/ WatchFail
    \/ BackoffNext
    \/ BackoffStop
    \/ WatchStoreChange

QuietSpec == WatchInit /\ [][QuietNext]_vars

\* Scheduling: a goroutine that can take a step takes one (main, and the
\* retry goroutine with the relay it hands its events to); the select of
\* main chooses among its ready cases at random, so a case that is ready
\* again and again is taken.  The errors of the environment are not forced.
Fairness ==
    /\ WF_vars(mustGetServices \/ QuietInitBackends \/ QuietPoll \/ StartWatch)
    /\ SF_vars(LoopRecvDefChange)
    /\ SF_vars(LoopRecvTick)
    /\ WF_vars(WatchCall \/ WatchEvent \/ WatchDeliver \/ BackoffNext \/ BackoffStop)

FairWatchFail == WatchFailEnv(MaxFairErrs)

FairNext ==
    \/ mustGetServices
    \/ QuietInitBackends
    \/ QuietPoll
    \/ StartWatch
    \/ LoopRecvDefChange
    \/ LoopRecvTick
    \/ Tick
    \/ WatchCall
    \/ WatchEvent
    \/ WatchDeliver
    \/ FairWatchFail
    \/ BackoffNext
    \/ BackoffStop
    \/ WatchStoreChange

FairSpec == WatchInit /\ [][FairNext]_vars /\ Fairness

\* Scenario C: the only errors are those of the watch, and the backoff policy
\* answers each of them with a delay.
ScenarioInit == InitEnv(ScenarioStore)

ScenarioGet == GetEnv(FALSE)

ScenarioStoreChange == StoreChangeEnv(ScenarioStore, MaxChanges)

ScenarioPoll == PollEnv(OneInventory, 0, FALSE)

ScenarioNext ==
    \/ ScenarioGet
    \/ QuietInitBackends
    \/ ScenarioPoll
    \/ StartWatch
    \/ LoopRecvDefChange
    \/ LoopRecvTick
    \/ Tick
    \/ WatchCall
    \/ WatchEvent
    \/ WatchDeliver
    \/ WatchFail
    \/ BackoffNext
    \/ ScenarioStoreChange

ScenarioSpec ==
    /\ ScenarioInit
    /\ [][ScenarioNext]_vars
    /\ WF_vars(ScenarioGet \/ QuietInitBackends \/ ScenarioPoll \/ StartWatch)
    /\ SF_vars(LoopRecvDefChange)
    /\ WF_vars(WatchCall \/ WatchEvent \/ WatchDeliver \/ BackoffNext)

\* The initial pass over every listing of one container, with the two
\* services of scenario C and no error of the environment.
ListingPoll == PollEnv(Listings, 0, FALSE)

ListingNext ==
    \/ ScenarioGet
    \/ QuietInitBackends
    \/ ListingPoll
    \/ StartWatch

ListingSpec == ScenarioInit /\ [][ListingNext]_vars

\* The initial pass over every directory of definitions.
LoadInit == InitEnv(LoadStores)

LoadNext ==
    \/ mustGetServices
    \/ QuietInitBackends
    \/ QuietPoll
    \/ StartWatch

LoadSpec == LoadInit /\ [][LoadNext]_vars

\* ------------------------------------------------------------------ claims

\* Events the watch has obtained from etcd that have not yet started a pass.
PendingEvents == produced - defPasses

\* Events on their way through the two unbuffered channels: one held by the
\* Watch call blocked on receiver, one held by the relay blocked on defChange.
InFlight ==
    (IF wpc = "holding" THEN 1 ELSE 0) + (IF rpc = "send" THEN 1 ELSE 0)

\* C1 as stated: a burst is coalesced, so that exactly one notification is
\* pending at the moment the loop reads defChange.
C1_OnePendingAtDrain ==
    [][defPasses' # defPasses => PendingEvents = 1]_vars

\* C1 amended: nothing is coalesced.  Every event the watch obtains is passed
\* on as a notification of its own, and every definition-change pass consumes
\* exactly one of them: the events obtained are the passes started plus the
\* (at most two) events still held by the watch and the relay.
C1_OnePassPerEvent ==
    /\ PendingEvents = InFlight
    /\ defPasses <= produced

\* A burst of two events is pending while the loop is at its select.
C1_BurstPending == PendingEvents = 2 /\ pc = "select" /\ Running

\* C2: a burst of N > 1 events pending before the loop reads defChange causes
\* at least one and at most N definition-change passes, as long as the
\* process does not exit.
C2_BurstPasses ==
    /\ [](defPasses <= produced)
    /\ \A m \in 0..MaxChanges :
          (PendingEvents >= 2 /\ defPasses = m) ~> (defPasses > m \/ ~Running)

\* A burst of two events waits while the loop is busy with a tick pass.
C2_BurstWaiting ==
    PendingEvents = 2 /\ pc = "poll" /\ trigger = "tick" /\ Running

\* C3: at most one pass is in progress, and the loop is at its select only
\* when none is.
C3_Sequential ==
    /\ active \in {0, 1}
    /\ pc = "select" => active = 0
    /\ pc \in {"load", "backends", "poll"} => active = 1

\* A pass is in progress while a tick and a change notification both wait.
C3_TriggersWaitDuringPass ==
    pc = "poll" /\ active = 1 /\ tickPending /\ rpc = "send" /\ Running

\* C4 as stated: after startup the process exits fatally only when the retry
\* policy of the watch gives up or when listing the containers fails.
C4_TwoFatalCauses ==
    (~Running /\ trigger # "startup") => fatalCause \in {"watch", "list"}

\* C4 amended: after startup the process exits fatally only when the retry
\* policy of the watch answers Stop, when listing the containers fails in a
\* poll pass, or when reading the definitions fails in a reload; a malformed
\* definition, an unresolvable port and a failed registry write are survived.
C4_ThreeFatalCauses ==
    /\ fatalCause \in {"none", "watch", "list", "get"}
    /\ fatalCause = "watch" => wpc = "failed" /\ lastBackoff = "Stop"
    /\ fatalCause = "list" => pc = "poll" /\ ~poll.done
    /\ fatalCause = "get" => pc = "load"
    /\ poll.done => fatalCause \in {"none", "watch"}

\* The process has exited because the reload after a change could not read
\* the definitions.
C4_FatalReload == fatalCause = "get" /\ trigger = "defchange"

C6_RecoversAfterThreeErrors ==
    /\ [](Running)
    /\ \A n \in 1..MaxChanges :
          (streak >= 3 /\ wpc = "holding" /\ produced = n) ~> (defPasses >= n)

\* The event obtained after three consecutive errors has started a pass.
C6_PassAfterRecovery ==
    watchErrs >= 3 /\ streak = 0 /\ produced = 1 /\ defPasses = 1 /\ notified >= 3

\* Keys of the well-formed nodes of a directory listing.
WellFormedKeys(nodes) ==
    { nodes[i].key : i \in { j \in 1..Len(nodes) :
                               nodes[j].compiles /\ nodes[j].port \in 1..65535 } }

\* C7: a definition-change pass reloads the definitions, replaces svcs by
\* what it loaded, attempts a Backend for every service of the new set and
\* then polls with the new set, in this order.
C7_DefChangePass ==
    [][/\ (pc = "load" /\ pc' = "backends") =>
             /\ Keys(svcs') = WellFormedKeys(store)
             /\ Len(svcs') = Cardinality(WellFormedKeys(store))
             /\ passOps' = <<"get">>
             /\ backends' = backends /\ servers' = servers
       /\ (pc = "backends" /\ pc' = "poll") =>
             /\ svcs' = svcs
             /\ beTried' = Keys(svcs)
             /\ passOps' = <<"get", "backends">>
             /\ servers' = servers
       /\ (trigger = "defchange" /\ pc = "poll" /\ pc' = "select") =>
             /\ svcs' = svcs
             /\ poll'.svcs = svcs
             /\ passOps' = <<"get", "backends", "poll">>
             /\ backends' = backends]_vars

\* A definition-change pass has completed with a set that dropped svc1, whose
\* Backend and Server of the earlier set are still in the registry.
C7_ReplacedSet ==
    /\ trigger = "defchange" /\ pc = "select"
    /\ passOps = <<"get", "backends", "poll">>
    /\ Keys(svcs) = {"svc2"}
    /\ "svc1" \in backends
    /\ poll.puts # {}

\* C8: a tick pass only polls: it does not read the definitions, leaves svcs
\* alone and attempts no Backend; the only records it writes are Servers.
C8_TickPollsOnly ==
    [][trigger' = "tick" =>
          /\ svcs' = svcs
          /\ backends' = backends
          /\ beTried' = {}
          /\ passOps' \in {<<>>, <<"poll">>}
          /\ pc' \in {"poll", "select"}]_vars

\* A tick pass has completed and has written a Server.
C8_TickWroteServer ==
    /\ trigger = "tick" /\ pc = "select" /\ passOps = <<"poll">>
    /\ poll.puts # {} /\ poll.failed = {}
    /\ servers # {}

\* The matches of a listing: (service, container, stripped name) with the
\* name matching the service's pattern.
Candidates(containers, ss) ==
    UNION { { [svc |-> ss[k], c |-> containers[i],
               name |-> TrimLeft(containers[i].Names[j])] :
                 j \in 1..Len(containers[i].Names), k \in 1..Len(ss) } :
            i \in 1..Len(containers) }

Matches(containers, ss) ==
    { m \in Candidates(containers, ss) : MatchString(m.svc.re, m.name) }

\* The mapping that decides the external port: the first one of the port.
Mappings(c, containerPort) ==
    { i \in 1..Len(c.Ports) : c.Ports[i].PrivatePort = containerPort }

FirstMapping(c, containerPort) ==
    c.Ports[CHOOSE i \in Mappings(c, containerPort) :
                \A j \in Mappings(c, containerPort) : i <= j]

Exposed(m) ==
    /\ Mappings(m.c, m.svc.ContainerPort) # {}
    /\ FirstMapping(m.c, m.svc.ContainerPort).PublicPort \in 1..65535

\* C9: within a pass every match has its port looked up and every match with
\* an exposed port has its put attempted, whichever other lookups and puts of
\* the pass failed; and initializeVulcandBackends attempts every service.
C9_FailuresContained ==
    /\ poll.done =>
          /\ poll.resolved =
                { Target(m.svc, m.name) : m \in Matches(poll.containers, poll.svcs) }
          /\ { p.t : p \in poll.puts } =
                { Target(m.svc, m.name) :
                    m \in { x \in Matches(poll.containers, poll.svcs) : Exposed(x) } }
          /\ poll.failed \subseteq { p.t : p \in poll.puts }
    /\ (passOps = <<"get", "backends">>) => beTried = Keys(svcs)

\* A pass in which one put failed, one lookup failed and another Server was
\* written all the same.
C9_OtherWritten ==
    /\ poll.done /\ Running
    /\ Cardinality(poll.failed) = 1
    /\ \E p \in poll.puts :
          /\ p.t \notin poll.failed
          /\ [key |-> p.t.key, name |-> p.t.name, host |-> Host, port |-> p.port] \in servers
    /\ poll.warned \ poll.failed # {}

\* C10: after a pass whose listing and puts all succeeded the registry holds,
\* for every match with an exposed port, the Server of that service, name and
\* external port; for a match without one the pass attempted no put.
C10_ServersPublished ==
    (poll.done /\ poll.failed = {}) =>
       \A m \in Matches(poll.containers, poll.svcs) :
          IF Exposed(m)
          THEN [key |-> m.svc.key, name |-> m.name, host |-> Host,
                port |-> FirstMapping(m.c, m.svc.ContainerPort).PublicPort] \in servers
          ELSE /\ Target(m.svc, m.name) \notin { p.t : p \in poll.puts }
               /\ Target(m.svc, m.name) \in poll.warned

\* The container named a1 has a Server under both services, and the
\* container named b1, whose mapping has public port 0, has none.
C10_TwoServicesOneContainer ==
    /\ poll.done /\ poll.failed = {}
    /\ poll.containers = <<CA, CB>>
    /\ [key |-> "svc1", name |-> <<"a", "1">>, host |-> Host, port |-> 33000] \in servers
    /\ [key |-> "svc2", name |-> <<"a", "1">>, host |-> Host, port |-> 33002] \in servers
    /\ [key |-> "svc2", name |-> <<"b", "1">>] \in poll.warned
    /\ \A s \in servers : s.name # <<"b", "1">>

\* C11: findExternalPort answers NotExposed when the container has no mapping
\* of the container port, and when the mapping that decides has a public port
\* below 1 (0 included) or above 65535; it answers the public port itself
\* when that is in [1, 65535].  The ports a pass puts are the ports answered.
C11_ResolvePort ==
    poll.done =>
       /\ \A i \in 1..Len(poll.containers) : \A k \in 1..Len(poll.svcs) :
             LET c == poll.containers[i]
                 p == poll.svcs[k].ContainerPort
                 r == findExternalPort(c.Ports, p)
             IN  IF Mappings(c, p) = {}
                 THEN r = NotExposed
                 ELSE LET pub == FirstMapping(c, p).PublicPort
                      IN  /\ pub < 1 => r = NotExposed
                          /\ pub > 65535 => r = NotExposed
                          /\ pub \in 1..65535 => r = [port |-> pub, err |-> FALSE]
       /\ \A put \in poll.puts : put.port \in 1..65535
       /\ \A s \in servers : s.port \in 1..65535

\* A pass over a container that publishes 8080 at 65535 and 9090 at 65536:
\* the first is registered at 65535, the second is not registered.
C11_RangeLimits ==
    /\ poll.done
    /\ poll.containers[1].Ports = <<Port(8080, 65535), Port(9090, 65536)>>
    /\ [key |-> "svc1", name |-> <<"a", "1">>, host |-> Host, port |-> 65535] \in servers
    /\ [key |-> "svc2", name |-> <<"a", "1">>] \in poll.warned
    /\ \A s \in servers : s.key # "svc2"

\* The names of the containers of a listing, as the runtime reports them.
ListedNames(containers) ==
    UNION { { containers[i].Names[j] : j \in 1..Len(containers[i].Names) } :
            i \in 1..Len(containers) }

\* C12 as stated: exactly one leading separator is stripped from a name, so a
\* name with several leading separators loses only the first.
C12_StripsOneSeparator ==
    poll.done =>
       \A name \in ListedNames(poll.containers) : TrimLeft(name) = TrimPrefix(name)

\* C12 amended: every leading separator is stripped.  The clean name is the
\* name without its longest prefix of separators: a name with one leading
\* separator loses it, a name without one is unchanged, a name with several
\* loses all of them; the names a pass matches and registers have none.
C12_StripsLeadingSeparators ==
    poll.done =>
       /\ \A name \in ListedNames(poll.containers) :
             LET clean == TrimLeft(name)
                 k == Len(name) - Len(clean)
             IN  /\ k >= 0
                 /\ clean = SubSeq(name, k + 1, Len(name))
                 /\ \A i \in 1..k : name[i] = "/"
                 /\ clean # <<>> => Head(clean) # "/"
                 /\ (name # <<>> /\ Head(name) # "/") => clean = name
       /\ \A tg \in poll.resolved : tg.name # <<>> /\ Head(tg.name) # "/"

\* A container reported as "//a" has been registered under svc1 as "a".
C12_TwoSeparatorsStripped ==
    /\ poll.done
    /\ poll.containers[1].Names = << <<"/", "/", "a">> >>
    /\ [key |-> "svc1", name |-> <<"a">>, host |-> Host, port |-> 33000] \in servers

\* C13: stripping is idempotent: stripping a stripped name changes nothing.
C13_StripIdempotent ==
    poll.done =>
       \A name \in ListedNames(poll.containers) :
          TrimLeft(TrimLeft(name)) = TrimLeft(name)

\* A container reported as "/a1" has been registered as "a1", the name that
\* stripping leaves as it is.
C13_StrippedOnce ==
    /\ poll.done
    /\ poll.containers[1].Names = << <<"/", "a", "1">> >>
    /\ poll.containers[1].ID = "cN"
    /\ TrimLeft(<<"/", "a", "1">>) # <<"/", "a", "1">>
    /\ { tg.name : tg \in poll.resolved } = { <<"a", "1">> }

\* The orderings of a sequence.
Orderings(s) ==
    { [i \in 1..Len(s) |-> s[f[i]]] :
        f \in { g \in [1..Len(s) -> 1..Len(s)] :
                  \A i, j \in 1..Len(s) : i # j => g[i] # g[j] } }

Range(s) == { s[i] : i \in 1..Len(s) }

WellFormed(node) == node.compiles /\ node.port \in 1..65535

\* C14: a load that could read the directory yields exactly one Service for
\* every well-formed node, that node's, and none for a malformed node (bad
\* pattern, missing or invalid port), which neither ends the load nor removes
\* another node's Service; the set of Services is the same for every
\* ordering of the nodes.
C14_LoadAll ==
    (pc = "backends" /\ passOps = <<"get">>) =>
       /\ \A i \in 1..Len(store) :
             Cardinality({ j \in 1..Len(svcs) : svcs[j].key = store[i].key })
                = IF WellFormed(store[i]) THEN 1 ELSE 0
       /\ Len(svcs) = Cardinality({ i \in 1..Len(store) : WellFormed(store[i]) })
       /\ Range(svcs) = { newService(n).svc : n \in { x \in Range(store) : WellFormed(x) } }
       /\ \A o \in Orderings(store) : Range(ParseNodes(o)) = Range(svcs)

\* A directory whose first node has a bad pattern and whose second has an
\* invalid port has been loaded: the Service of its third node is there.
C14_MalformedSkipped ==
    /\ pc = "backends" /\ passOps = <<"get">>
    /\ store = <<DBadRe, DBigPort, D2>>
    /\ Keys(svcs) = {"svc2"}

\* The keys of the Server records of the registry.
ServerKeys(reg) == { [key |-> s.key, name |-> s.name] : s \in reg }

\* C15: no step of the program removes a Backend key or a Server key from the
\* registry.
C15_RegistryGrows ==
    [][/\ backends \subseteq backends'
       /\ ServerKeys(servers) \subseteq ServerKeys(servers')]_vars

\* After a reload that dropped svc1 and a listing without the container
\* named a2, the Backend of svc1 and the Server of a2 are still there.
C15_OrphansKept ==
    /\ poll.done /\ pc = "select" /\ trigger = "defchange"
    /\ "svc1" \notin Keys(svcs)
    /\ <<"/", "a", "2">> \notin ListedNames(poll.containers)
    /\ "svc1" \in backends
    /\ [key |-> "svc1", name |-> <<"a", "2">>] \in ServerKeys(servers)

\* The Servers a pass has published for a service and a container: the puts
\* that did not fail, under the service's key and one of the container's
\* clean names.
PublishedFor(svc, c) ==
    { p.t : p \in { q \in poll.puts :
                      /\ q.t \notin poll.failed
                      /\ q.t.key = svc.key
                      /\ q.t.name \in { TrimLeft(n) : n \in Range(c.Names) } } }

\* The clean names of a container that match a service.
MatchingNames(svc, c) ==
    { n \in { TrimLeft(x) : x \in Range(c.Names) } : MatchString(svc.re, n) }

\* C16 as stated: a pass publishes at most one Server for a service and a
\* container, also when several names of the container match the service.
C16_OneServerPerPair ==
    poll.done =>
       \A c \in Range(poll.containers) : \A svc \in Range(poll.svcs) :
          Cardinality(PublishedFor(svc, c)) <= 1

\* C16 amended: a pass publishes at most one Server for a service and an
\* instance name.  For a service and a container it attempts one Server per
\* distinct clean name of the container that matches the service, all with
\* the port of the container, and none when the port is not exposed; the
\* registry holds one record per service key and instance name.
C16_OneServerPerName ==
    /\ \A s1, s2 \in servers : (s1.key = s2.key /\ s1.name = s2.name) => s1 = s2
    /\ poll.done =>
          \A c \in Range(poll.containers) : \A svc \in Range(poll.svcs) :
             LET tried == { q \in poll.puts :
                              /\ q.t.key = svc.key
                              /\ q.t.name \in { TrimLeft(n) : n \in Range(c.Names) } }
                 r == findExternalPort(c.Ports, svc.ContainerPort)
             IN  /\ { q.t.name : q \in tried } =
                        IF r.err THEN {} ELSE MatchingNames(svc, c)
                 /\ Cardinality(tried) = Cardinality({ q.t.name : q \in tried })
                 /\ \A q \in tried : q.port = r.port
                 /\ PublishedFor(svc, c) \subseteq { q.t : q \in tried }

\* The container with the names a1 and a2 has two Servers under svc1, both
\* with its port.
C16_TwoNamesTwoServers ==
    /\ poll.done /\ poll.failed = {}
    /\ poll.containers = <<CB, CC>>
    /\ [key |-> "svc1", name |-> <<"a", "1">>, host |-> Host, port |-> 33003] \in servers
    /\ [key |-> "svc1", name |-> <<"a", "2">>, host |-> Host, port |-> 33003] \in servers

\* C17: mustWatchServiceDefs returns to main before the watch has been
\* called, main goes on to its select, and from then on a tick that waits in
\* ticker.C is read by the loop and answered by a poll pass that completes,
\* whatever the watch does (failing, backing off, delivering nothing), as
\* long as the process does not exit.
C17_TicksHandled ==
    /\ [][/\ (pc = "startwatch" /\ pc' # "startwatch") =>
                (pc' = "select" /\ wpc' = "retry" /\ produced' = 0)
          /\ (tickPending /\ ~tickPending') =>
                (pc' = "poll" /\ trigger' = "tick")]_vars
    /\ (pc = "startwatch") ~> (pc = "select" \/ ~Running)
    /\ tickPending ~> (~tickPending \/ ~Running)
    /\ (pc = "poll" /\ trigger = "tick") ~> (poll.done \/ ~Running)

\* A tick pass has completed while the watch, which has delivered nothing,
\* waits for its retry after an error.
C17_TickDuringBackoff ==
    /\ trigger = "tick" /\ poll.done /\ pc = "select"
    /\ wpc = "failed" /\ produced = 0 /\ watchErrs >= 1
    /\ Running

\* Nothing is on its way to the loop: the loop waits at its select, the relay
\* waits for an event, and the running Watch call has handed over every
\* change made since it was called.
Settled ==
    /\ Running
    /\ pc = "select"
    /\ rpc = "recv"
    /\ wpc = "watching"
    /\ waitIndex > storeIndex

\* C18: every change made to the definitions after the initial load is
\* followed by a reload, also a change made before the watch was called or
\* while it was backing off; so once nothing is on its way to the loop any
\* more, the services in memory are the ones loadable from the store.
C18_ChangesReloaded == Settled => svcs = ParseNodes(store)

\* C19: the Servers a pass puts are under keys of the services in memory.  In
\* the initial pass and in a reload the Backends of all these services have
\* been attempted before the poll puts its first Server; a tick pass polls
\* with the services of the last load, whose Backends were attempted then.
\* Where no Backend put fails, every service in memory has its Backend from
\* the end of its load on, and every Server of the registry has a Backend
\* under its key.
C19_BackendBeforeServer ==
    /\ [][(~poll.done /\ poll'.done) =>
             /\ pc = "poll"
             /\ \A q \in poll'.puts : q.t.key \in Keys(svcs) /\ q.t.key \in backends
             /\ trigger # "tick" =>
                   /\ passOps = <<"get", "backends">>
                   /\ beTried = Keys(svcs)
             /\ trigger = "tick" => passOps = <<>>]_vars
    /\ [][servers' # servers => (~poll.done /\ poll'.done)]_vars
    /\ [](pc \in {"poll", "startwatch", "select"} => Keys(svcs) \subseteq backends)
    /\ [](\A s \in servers : s.key \in backends)

\* A reload has completed: the Backends of its services were attempted, its
\* poll has put a Server, and the Servers of both loads have their Backends.
C19_ServersHaveBackends ==
    /\ trigger = "defchange" /\ poll.done /\ pc = "select"
    /\ beTried = Keys(svcs)
    /\ poll.puts # {}
    /\ { s.key : s \in servers } = {"svc1", "svc2"}
    /\ backends = {"svc1", "svc2"}

\* Position of the first mapping of a container port.
FirstIndex(c, containerPort) ==
    CHOOSE i \in Mappings(c, containerPort) :
        \A j \in Mappings(c, containerPort) : i <= j

\* C20: where a container lists several mappings of a container port, the
\* first in list order decides alone.  The answer is the one the list cut
\* after that mapping gives; it is NotExposed when the first mapping's public
\* port is outside [1, 65535], whatever a later mapping of the port says, and
\* the pass then puts no Server for the container under that service.
C20_FirstMappingDecides ==
    poll.done =>
       \A c \in Range(poll.containers) : \A svc \in Range(poll.svcs) :
          LET p == svc.ContainerPort
              r == findExternalPort(c.Ports, p)
          IN  Mappings(c, p) # {} =>
                 LET first == FirstIndex(c, p)
                     pub == c.Ports[first].PublicPort
                 IN  /\ r = findExternalPort(SubSeq(c.Ports, 1, first), p)
                     /\ pub \notin 1..65535 =>
                           /\ r = NotExposed
                           /\ \A q \in poll.puts :
                                 ~(/\ q.t.key = svc.key
                                   /\ q.t.name \in { TrimLeft(n) : n \in Range(c.Names) })
                     /\ pub \in 1..65535 =>
                           /\ r = [port |-> pub, err |-> FALSE]
                           /\ \A q \in poll.puts :
                                 (/\ q.t.key = svc.key
                                  /\ q.t.name \in { TrimLeft(n) : n \in Range(c.Names) })
                                    => q.port = pub

\* A pass over a container that maps 9090 first to public port 0 and then to
\* public port 1: no Server has been written for it.
C20_LaterMappingIgnored ==
    /\ poll.done
    /\ poll.containers[1].Ports = <<Port(9090, 0), Port(9090, 1)>>
    /\ [key |-> "svc2", name |-> <<"a", "1">>] \in poll.warned
    /\ poll.puts = {}
    /\ servers = {}

====
